---------------------------- MODULE Spec2Model ----------------------------
(***************************************************************************)
(* Model of the Azure Blob backend of TileDB's StorageFS                   *)
(* (storage_azure_blob.cc).                                                *)
(*                                                                         *)
(* Eight specifications share this module:                                 *)
(*   SpecBlock   the block arithmetic of write_to_file, over many buffer   *)
(*               sizes;                                                    *)
(*   SpecUpload  one write_to_file call past its directory check:          *)
(*               upload_block_blob, its worker tasks step by step, and the *)
(*               wait on the future (FairUpload adds the scheduler's       *)
(*               fairness);                                                *)
(*   Spec        the file-system operations on a container, each call one  *)
(*               atomic step (calls are synchronous, one caller);          *)
(*   SpecObj     the constructor, real_dir and move_path among writes and  *)
(*               commits;                                                  *)
(*   SpecDir     the directory and listing calls, with paths in every      *)
(*               form;                                                     *)
(*   SpecFrame   the calls that refuse on a precondition, among writes and *)
(*               commits;                                                  *)
(*   SpecImage   check_results of the image example, element by element;   *)
(*   SpecFrag    fragment writers and array readers, from the engine's     *)
(*               design.                                                   *)
(*                                                                         *)
(* Sizes and offsets are counted in MiB.  Strings are sequences of         *)
(* one-character strings.                                                  *)
(***************************************************************************)
EXTENDS Integers, Sequences, FiniteSets, TLC

VARIABLES
  \* ---- the container and the AzureBlob object (Spec)
  blobs,          \* blob name -> size, the blobs that exist (blob_exists)
  staged,         \* blob name -> (block id -> size), uploaded uncommitted blocks
  write_map_,     \* blob name -> pending block list (sequence of block ids)
  fs_op,          \* the last call: [op, path, ...]
  fs_ret,         \* what the last call ended with
  fs_calls,       \* the data-plane backend calls the last call issued, in order
                  \* (and, for delete_dir, its nested delete_dir calls)
  fs_list,        \* what the last call returned besides a status (the names of
                  \* get_dirs, get_files, real_dir), or the error code it threw
  \* ---- one write_to_file call (SpecBlock, SpecUpload)
  buffer_size,    \* the argument
  block_size,     \* local of write_to_file
  num_blocks,     \* local of write_to_file
  wr_pc,          \* where the call is
  wr_ret,         \* its return value
  \* ---- upload_block_blob (SpecUpload)
  hw,             \* std::thread::hardware_concurrency()
  parallelism,    \* local of upload_block_blob
  num_workers,    \* context->num_workers
  block_index,    \* context->block_index
  failed,         \* context->failed
  block_ids,      \* the ids generate_block_ids returned, captured by the tasks
  failed_reason,  \* context->failed_reason: 0, or the worker whose error it holds
  reason_writes,  \* how many times failed_reason was assigned
  future,         \* shared state of task_promise: "pending", "success", "failure", "broken"
  fulfilled,      \* the workers that called task_promise.set_value, in order
  spawned,        \* number of tasks std::async has started
  w_pc,           \* worker -> position in thread_upload_func
  w_i,            \* worker -> its local i
  attempts,       \* the upload_block_from_buffer calls issued: a set of records
  upload_errors,  \* the block indexes whose upload returned an error
  \* ---- check_results of the image example (SpecImage)
  buffer_image,   \* the image read: the palette image, or that with one element changed
  check,          \* the locals of check_results: c, i, j, k, p, q, r, errors, ...
  \* ---- fragments of one array (SpecFrag)
  fragments,      \* the fragment directories in timestamp order: [status, files, cells]
  readers         \* open array handle -> [snapshot, has_read, stream, found]

fsVars  == <<blobs, staged, write_map_, fs_op, fs_ret, fs_calls, fs_list>>
wrVars  == <<buffer_size, block_size, num_blocks, wr_pc, wr_ret>>
upVars  == <<hw, parallelism, num_workers, block_index, failed, block_ids, failed_reason,
             reason_writes, future, fulfilled, spawned, w_pc, w_i, attempts,
             upload_errors>>
imVars  == <<buffer_image, check>>
frVars  == <<fragments, readers>>
vars    == <<fsVars, wrVars, upVars, imVars, frVars>>

\* What a call can end with: its two return values, or an exception that
\* leaves it.
TILEDB_FS_OK  == "TILEDB_FS_OK"
TILEDB_FS_ERR == "TILEDB_FS_ERR"
THROWN        == "exception"

-----------------------------------------------------------------------------
(* Program constants, in MiB. *)
GRAIN_SIZE         == 4
default_block_size == 8
max_block_size     == 100
max_num_blocks     == 50000

Min(a, b) == IF a < b THEN a ELSE b
Max(a, b) == IF a > b THEN a ELSE b

-----------------------------------------------------------------------------
(* write_to_file, lines 529-538: the size check and the block arithmetic.  *)

TooLarge(n) == n > max_num_blocks * max_block_size

RoundToGrain(b) == ((b + GRAIN_SIZE - 1) \div GRAIN_SIZE) * GRAIN_SIZE

\* a wrong floor: the grain instead of the default block size
BlockSize_GrainFloor(n) ==
  Max(Min(RoundToGrain(n \div max_num_blocks), max_block_size), GRAIN_SIZE)

BlockSize(n) ==
  LET b1 == n \div max_num_blocks
      b2 == RoundToGrain(b1)
      b3 == Min(b2, max_block_size)
  IN  Max(b3, default_block_size)

NumBlocks(n) == (n + BlockSize(n) - 1) \div BlockSize(n)


-----------------------------------------------------------------------------
(* Values of the variables a specification does not use. *)

FsIdle ==
  /\ blobs = << >>
  /\ staged = << >>
  /\ write_map_ = << >>
  /\ fs_op = [op |-> "none"]
  /\ fs_ret = TILEDB_FS_OK
  /\ fs_calls = << >>
  /\ fs_list = << >>

ImIdle ==
  /\ buffer_image = << >>
  /\ check = << >>

FrIdle ==
  /\ fragments = << >>
  /\ readers = << >>

CtxIdle ==
  /\ parallelism = 0
  /\ num_workers = 0
  /\ block_index = 0
  /\ failed = FALSE
  /\ block_ids = << >>
  /\ failed_reason = 0
  /\ reason_writes = 0
  /\ future = "none"
  /\ fulfilled = << >>
  /\ spawned = 0
  /\ w_pc = << >>
  /\ w_i = << >>
  /\ attempts = {}
  /\ upload_errors = {}

UpIdle == hw = 0 /\ CtxIdle

WrIdle ==
  /\ buffer_size = 0
  /\ block_size = 0
  /\ num_blocks = 0
  /\ wr_pc = "idle"
  /\ wr_ret = TILEDB_FS_OK

-----------------------------------------------------------------------------
(* SpecBlock: write_to_file from its size check to num_blocks, for buffer  *)
(* sizes around every multiple of max_num_blocks * GRAIN_SIZE, where the   *)
(* block size steps, and around the largest accepted size.                 *)

SizeSpan == 2
SizeSteps == 26

BufferSizes ==
  { s \in { g * GRAIN_SIZE * max_num_blocks + d :
              g \in 0..SizeSteps, d \in (-SizeSpan)..SizeSpan }
          \cup { k * 100003 : k \in 0..(2 * SizeSteps) } : s >= 0 }

\* lines 529-538
write_to_file_blocks ==
  /\ wr_pc = "call"
  /\ IF TooLarge(buffer_size)
       THEN /\ wr_pc' = "done"
            /\ wr_ret' = TILEDB_FS_ERR
            /\ UNCHANGED <<block_size, num_blocks>>
       ELSE /\ wr_pc' = "computed"
            /\ block_size' = BlockSize(buffer_size)
            /\ num_blocks' = NumBlocks(buffer_size)
            /\ UNCHANGED wr_ret
  /\ UNCHANGED <<buffer_size, fsVars, imVars, frVars, upVars>>

InitBlock ==
  /\ buffer_size \in BufferSizes
  /\ block_size = 0
  /\ num_blocks = 0
  /\ wr_pc = "call"
  /\ wr_ret = TILEDB_FS_OK
  /\ FsIdle
  /\ ImIdle
  /\ FrIdle
  /\ UpIdle

NextBlock == write_to_file_blocks

SpecBlock == InitBlock /\ [][NextBlock]_vars

-----------------------------------------------------------------------------
(* SpecUpload: one write_to_file call whose parent directory exists, from  *)
(* line 529 on, with upload_block_blob and its worker tasks step by step.  *)
(* Every access to an atomic of the context is a step of its own.          *)

MaxHw == 5
MaxUploadBlocks == 3
ExistingCounts == {0, 2}

UploadSizes ==
  {0, default_block_size} \cup { k * default_block_size - 3 : k \in 1..MaxUploadBlocks }

\* blob_client::concurrency(): the value the constructor passed, line 247
ClientConcurrency == hw

UploadPath == <<"f">>

\* generate_block_ids(path, num_blocks): one id per block, numbered after the
\* blocks already pending for the path; the ids join the path's pending list
PendingList(m, path) == IF path \in DOMAIN m THEN m[path] ELSE << >>

generate_block_ids(m, path, n) == [k \in 1..n |-> Len(PendingList(m, path)) + k - 1]

AddPending(m, path, ids) ==
  [q \in DOMAIN m \cup {path} |->
     IF q = path THEN PendingList(m, path) \o ids ELSE m[q]]

\* thread_upload_func, lines 487-488: the byte range of block i
BlockLenOf(bs, n, i) == Min(bs, n - bs * i)

BlockOffset(i) == block_size * i
BlockLen(i) == BlockLenOf(block_size, buffer_size, i)

Workers == 1..spawned
InFlight == { w \in Workers : w_pc[w] = "uploading" }

\* lines 455-479, 505: parallelism, the context, and the future handed back
upload_block_blob_enter ==
  /\ wr_pc = "computed"
  /\ wr_pc' = "spawn"
  /\ parallelism' = Min(hw \div 2, ClientConcurrency)
  /\ num_workers' = Min(hw \div 2, ClientConcurrency)
  /\ block_index' = 0
  /\ failed' = FALSE
  /\ future' = "pending"
  /\ block_ids' = generate_block_ids(write_map_, UploadPath, num_blocks)
  /\ write_map_' = AddPending(write_map_, UploadPath,
                              generate_block_ids(write_map_, UploadPath, num_blocks))
  /\ UNCHANGED <<upload_errors, blobs, staged, fs_op, fs_ret, fs_calls, fs_list, imVars, frVars,
                 buffer_size, block_size, num_blocks, wr_ret, hw,
                 failed_reason, reason_writes, fulfilled, spawned, w_pc, w_i, attempts>>

\* one task per hardware thread instead of per unit of parallelism
SpawnBound_Hw == hw

\* lines 501-503: one std::async per iteration
SpawnBound == parallelism

upload_block_blob_spawn ==
  /\ wr_pc = "spawn"
  /\ spawned < SpawnBound
  /\ spawned' = spawned + 1
  /\ w_pc' = Append(w_pc, "fetch")
  /\ w_i' = Append(w_i, -1)
  /\ UNCHANGED <<upload_errors, fsVars, imVars, frVars, wrVars, hw, parallelism, num_workers, block_index,
                 failed, block_ids, failed_reason, reason_writes, future, fulfilled, attempts>>

\* line 505 and the end of the function: the locals `context` and
\* `thread_upload_func` are destroyed; when no task holds a copy of the context
\* the promise dies unfulfilled and its future holds broken_promise
upload_block_blob_return ==
  /\ wr_pc = "spawn"
  /\ spawned >= SpawnBound
  /\ wr_pc' = "wait"
  /\ future' = IF spawned = 0 /\ future = "pending" THEN "broken" ELSE future
  /\ UNCHANGED <<upload_errors, block_ids, fsVars, imVars, frVars, buffer_size, block_size, num_blocks, wr_ret, hw,
                 parallelism, num_workers, block_index, failed, failed_reason,
                 reason_writes, fulfilled, spawned, w_pc, w_i, attempts>>

\* lines 541-547: .get() on the future, then the return value
write_to_file_wait ==
  /\ wr_pc = "wait"
  /\ future # "pending"
  /\ wr_pc' = "done"
  /\ wr_ret' = CASE future = "success" -> TILEDB_FS_OK
                 [] future = "failure" -> TILEDB_FS_ERR
                 [] OTHER -> THROWN
  /\ UNCHANGED <<fsVars, imVars, frVars, buffer_size, block_size, num_blocks, upVars>>

\* the index read but not advanced
FetchAdd_NoAdvance(w) == block_index

\* line 483
FetchAdd(w) == block_index + 1

worker_fetch(w) ==
  /\ w_pc[w] = "fetch"
  /\ w_i' = [w_i EXCEPT ![w] = block_index]
  /\ block_index' = FetchAdd(w)
  /\ w_pc' = [w_pc EXCEPT ![w] = "check"]
  /\ UNCHANGED <<upload_errors, block_ids, fsVars, imVars, frVars, wrVars, hw, parallelism, num_workers, failed,
                 failed_reason, reason_writes, future, fulfilled, spawned, attempts>>

\* line 484
LoopExit(w) == w_i[w] >= num_blocks \/ failed

\* lines 484-489: leave the loop, or issue the upload of block i
worker_check(w) ==
  /\ w_pc[w] = "check"
  /\ IF LoopExit(w)
       THEN /\ w_pc' = [w_pc EXCEPT ![w] = "sub"]
            /\ UNCHANGED attempts
       ELSE /\ w_pc' = [w_pc EXCEPT ![w] = "uploading"]
            /\ attempts' = attempts \cup
                 {[idx |-> w_i[w], worker |-> w,
                   nth |-> Cardinality({a \in attempts : a.idx = w_i[w]}) + 1,
                   failed_seen |-> failed,
                   id |-> block_ids[w_i[w] + 1],
                   off |-> BlockOffset(w_i[w]), len |-> BlockLen(w_i[w])]}
  /\ UNCHANGED <<upload_errors, fsVars, imVars, frVars, wrVars, hw, parallelism, num_workers, block_index,
                 failed, block_ids, failed_reason, reason_writes, future, fulfilled,
                 spawned, w_i>>

\* line 489: the upload returns, with success or an error
worker_upload_done(w) ==
  /\ w_pc[w] = "uploading"
  /\ \E ok \in BOOLEAN :
       /\ w_pc' = [w_pc EXCEPT ![w] = IF ok THEN "fetch" ELSE "exchange"]
       /\ upload_errors' = IF ok THEN upload_errors ELSE upload_errors \cup {w_i[w]}
  /\ UNCHANGED <<fsVars, imVars, frVars, wrVars, hw, parallelism, num_workers, block_index,
                 failed, block_ids, failed_reason, reason_writes, future, fulfilled,
                 spawned, w_i, attempts>>

\* the result of the exchange ignored: every failing worker assigns failed_reason
FirstToFail_Always(w) == TRUE

\* line 491: failed.exchange(true); the first to set it goes on to line 492
FirstToFail(w) == ~failed

worker_exchange(w) ==
  /\ w_pc[w] = "exchange"
  /\ failed' = TRUE
  /\ w_pc' = [w_pc EXCEPT ![w] = IF FirstToFail(w) THEN "write_reason" ELSE "fetch"]
  /\ UNCHANGED <<upload_errors, block_ids, fsVars, imVars, frVars, wrVars, hw, parallelism, num_workers, block_index,
                 failed_reason, reason_writes, future, fulfilled, spawned,
                 w_i, attempts>>

\* line 492: the plain (non-atomic) assignment of failed_reason
worker_write_reason(w) ==
  /\ w_pc[w] = "write_reason"
  /\ failed_reason' = w
  /\ reason_writes' = reason_writes + 1
  /\ w_pc' = [w_pc EXCEPT ![w] = "fetch"]
  /\ UNCHANGED <<upload_errors, block_ids, fsVars, imVars, frVars, wrVars, hw, parallelism, num_workers, block_index,
                 failed, future, fulfilled, spawned, w_i, attempts>>

\* every worker takes itself for the last
IsLastWorker_Any(w) == num_workers >= 1

\* line 495
IsLastWorker(w) == num_workers = 1

worker_sub(w) ==
  /\ w_pc[w] = "sub"
  /\ num_workers' = num_workers - 1
  /\ w_pc' = [w_pc EXCEPT ![w] = IF IsLastWorker(w) THEN "fulfil" ELSE "done"]
  /\ UNCHANGED <<upload_errors, block_ids, fsVars, imVars, frVars, wrVars, hw, parallelism, block_index, failed,
                 failed_reason, reason_writes, future, fulfilled, spawned,
                 w_i, attempts>>

\* line 497
Outcome == IF failed THEN "failure" ELSE "success"

worker_fulfil(w) ==
  /\ w_pc[w] = "fulfil"
  /\ fulfilled' = Append(fulfilled, w)
  /\ future' = IF future = "pending" THEN Outcome ELSE future
  /\ w_pc' = [w_pc EXCEPT ![w] = "done"]
  /\ UNCHANGED <<upload_errors, fsVars, imVars, frVars, wrVars, hw, parallelism, num_workers, block_index,
                 failed, block_ids, failed_reason, reason_writes, spawned, w_i,
                 attempts>>

worker(w) ==
  \/ worker_fetch(w)
  \/ worker_check(w)
  \/ worker_upload_done(w)
  \/ worker_exchange(w)
  \/ worker_write_reason(w)
  \/ worker_sub(w)
  \/ worker_fulfil(w)

InitUpload ==
  /\ buffer_size \in UploadSizes
  /\ block_size = 0
  /\ num_blocks = 0
  /\ wr_pc = "call"
  /\ wr_ret = TILEDB_FS_OK
  /\ hw \in 0..MaxHw
  /\ parallelism = 0
  /\ num_workers = 0
  /\ block_index = 0
  /\ failed = FALSE
  /\ block_ids = << >>
  /\ failed_reason = 0
  /\ reason_writes = 0
  /\ future = "none"
  /\ fulfilled = << >>
  /\ spawned = 0
  /\ w_pc = << >>
  /\ w_i = << >>
  /\ attempts = {}
  /\ upload_errors = {}
  /\ blobs = << >>
  /\ staged = << >>
  /\ \E e \in ExistingCounts :
       write_map_ = IF e = 0 THEN << >> ELSE [q \in {UploadPath} |-> [k \in 1..e |-> k - 1]]
  /\ fs_op = [op |-> "none"]
  /\ fs_ret = TILEDB_FS_OK
  /\ fs_calls = << >>
  /\ fs_list = << >>
  /\ ImIdle
  /\ FrIdle

NextUpload ==
  \/ write_to_file_blocks
  \/ upload_block_blob_enter
  \/ upload_block_blob_spawn
  \/ upload_block_blob_return
  \/ write_to_file_wait
  \/ \E w \in Workers : worker_fetch(w)
  \/ \E w \in Workers : worker_check(w)
  \/ \E w \in Workers : worker_upload_done(w)
  \/ \E w \in Workers : worker_exchange(w)
  \/ \E w \in Workers : worker_write_reason(w)
  \/ \E w \in Workers : worker_sub(w)
  \/ \E w \in Workers : worker_fulfil(w)

SpecUpload == InitUpload /\ [][NextUpload]_vars

\* The tasks run on threads of their own (std::launch::async) and the caller
\* runs: every thread that can take a step eventually takes it.
FairUpload ==
  /\ SpecUpload
  /\ WF_vars(write_to_file_blocks \/ upload_block_blob_enter \/ upload_block_blob_spawn
             \/ upload_block_blob_return \/ write_to_file_wait)
  /\ \A w \in 1..((MaxHw + 1) \div 2) : WF_vars(w \in Workers /\ worker(w))

-----------------------------------------------------------------------------
(* Properties of upload_block_blob (SpecUpload) and of the block arithmetic *)
(* (SpecBlock).                                                            *)

LeftLoop(w) == w_pc[w] \in {"sub", "fulfil", "done"}

C4_EachBlockOnce ==
  /\ \A a \in attempts :
       /\ a.idx \in 0..(num_blocks - 1)
       /\ a.nth = 1
       /\ a.id = block_ids[a.idx + 1]
       /\ a.off = a.idx * block_size
       /\ a.off + a.len = Min((a.idx + 1) * block_size, buffer_size)
       /\ a.len >= 1
  /\ \A a, b \in attempts : a.idx = b.idx => a = b
  /\ \A a, b \in attempts :
       a # b => (a.off + a.len <= b.off \/ b.off + b.len <= a.off)
  /\ future = "success" =>
       /\ {a.idx : a \in attempts} = 0..(num_blocks - 1)
       /\ upload_errors = {}
       /\ \A x \in 0..(buffer_size - 1) :
            \E a \in attempts : a.off <= x /\ x < a.off + a.len

C4_Witness ==
  /\ future = "success"
  /\ num_blocks = 3
  /\ buffer_size < 3 * block_size
  /\ Cardinality({a.worker : a \in attempts}) = 2

\* C5: when an upload failed the outcome is a failure; failed_reason is
\* assigned at most once, by a worker whose upload failed, and the assignment
\* is over when the promise is fulfilled; no upload is started by a worker
\* that read failed = true.
C5_FailureReported ==
  /\ (upload_errors # {} /\ Len(fulfilled) >= 1) => future = "failure"
  /\ reason_writes <= 1
  /\ Cardinality({w \in Workers : w_pc[w] = "write_reason"}) + reason_writes <= 1
  /\ reason_writes = 1 => failed /\ failed_reason \in Workers
  /\ (Len(fulfilled) >= 1 /\ failed) =>
       /\ reason_writes = 1
       /\ \A w \in Workers : w_pc[w] # "write_reason"
  /\ \A a \in attempts : ~a.failed_seen

C5_Witness ==
  /\ Len(fulfilled) = 1
  /\ future = "failure"
  /\ Cardinality(upload_errors) = 2
  /\ reason_writes = 1
  /\ failed_reason # fulfilled[1]

\* C6: write_to_file ends with TILEDB_FS_OK or TILEDB_FS_ERR, and the future
\* of upload_block_blob, once ready, holds a storage outcome, for every
\* parallelism including 0.
C6_ReturnsOkOrErr ==
  /\ wr_pc = "done" => wr_ret \in {TILEDB_FS_OK, TILEDB_FS_ERR}
  /\ future \in {"none", "pending", "success", "failure"}

\* With at least one worker the call does end (checked under FairUpload).
C6_EndsWithWorkers == (hw >= 2) ~> (wr_pc = "done")

\* C7: the tasks created, and so the uploads in flight, never exceed
\* min(hardware_concurrency()/2, client concurrency).
C7_BoundedWorkers ==
  /\ spawned <= Min(hw \div 2, ClientConcurrency)
  /\ Cardinality(InFlight) <= Min(hw \div 2, ClientConcurrency)
  /\ Len(w_pc) = spawned

C7_Witness ==
  /\ hw = 4
  /\ spawned = 2
  /\ Cardinality(InFlight) = 2

\* C8: for an accepted buffer_size the block size lies between
\* default_block_size and max_block_size, no block is longer than
\* max_block_size, and num_blocks is ceil(buffer_size / block_size).
C8_BlockSizeRange ==
  wr_pc = "computed" =>
    /\ ~TooLarge(buffer_size)
    /\ default_block_size <= block_size
    /\ block_size <= max_block_size
    /\ num_blocks >= 0
    /\ num_blocks * block_size >= buffer_size
    /\ (num_blocks - 1) * block_size < buffer_size
    /\ num_blocks > 0 =>
         /\ BlockLen(0) <= max_block_size
         /\ 1 <= BlockLen(num_blocks - 1)
         /\ BlockLen(num_blocks - 1) <= max_block_size

C8_Witness ==
  /\ wr_pc = "computed"
  /\ block_size > default_block_size
  /\ block_size < max_block_size
  /\ num_blocks * block_size > buffer_size

\* C24: for every buffer_size write_to_file accepts, the number of blocks it
\* computes is at most max_num_blocks.
C24_BlocksWithinLimit ==
  wr_pc = "computed" => num_blocks <= max_num_blocks

-----------------------------------------------------------------------------
(* Paths.  A string is a sequence of one-character strings.                *)

MARKER == <<".", "d", "i", "r", ".", "m", "a", "r", "k", "e", "r">>

\* the working directory the constructor derived from the home URI
working_dir == <<"w">>

starts_with(str, prefix) ==
  Len(prefix) <= Len(str) /\ SubSeq(str, 1, Len(prefix)) = prefix

slashify(path) ==
  IF path = << >> THEN <<"/">>
  ELSE IF path[Len(path)] # "/" THEN path \o <<"/">> ELSE path

\* parent_dir(NULL, dir): the text before the last '/' that is not the last
\* character
parent_dir(dir) ==
  LET last == IF dir # << >> /\ dir[Len(dir)] = "/" THEN Len(dir) - 1 ELSE Len(dir)
      cuts == { k \in 2..last : dir[k] = "/" }
  IN  IF cuts = {} THEN << >>
      ELSE SubSeq(dir, 1, (CHOOSE k \in cuts : \A j \in cuts : j <= k) - 1)

SchemeAt(path) ==
  { k \in 1..(Len(path) - 2) : path[k] = ":" /\ path[k + 1] = "/" /\ path[k + 2] = "/" }

\* azure_uri(path).path(): what follows the host, from its '/' on
UriPath(path) ==
  LET k == CHOOSE k \in SchemeAt(path) : \A j \in SchemeAt(path) : k <= j
      slashes == { j \in (k + 3)..Len(path) : path[j] = "/" }
  IN  IF slashes = {} THEN << >>
      ELSE SubSeq(path, CHOOSE j \in slashes : \A i \in slashes : j <= i, Len(path))

\* lines 190-211
get_path(path) ==
  LET pathname == IF SchemeAt(path) # {} THEN UriPath(path) ELSE path
  IN  IF SchemeAt(path) # {} /\ pathname = << >> THEN << >>
      ELSE IF pathname # << >> /\ pathname[1] = "/" THEN Tail(pathname)
      ELSE IF pathname = << >> THEN working_dir
      ELSE IF starts_with(pathname, working_dir) THEN pathname
      ELSE working_dir \o <<"/">> \o pathname

-----------------------------------------------------------------------------
(* The container as the backend shows it.  b: blob name -> size.           *)

\* blob_client_wrapper::blob_exists
blob_exists(b, name) == name \in DOMAIN b

\* a listing that finds only a blob named as the prefix itself
ListsSomething_Exact(b, prefix) == prefix \in DOMAIN b

\* list_blobs_segmented(container, "/", "", prefix, 1).blobs.size() > 0
ListsSomething(b, prefix) == \E name \in DOMAIN b : starts_with(name, prefix)

\* lines 286-288
is_file(b, file) == blob_exists(b, get_path(file))

\* lines 277-284
is_dir(b, dir) ==
  \/ dir = << >>
  \/ get_path(dir) = << >>
  \/ is_file(b, slashify(dir) \o MARKER)
  \/ ListsSomething(b, slashify(get_path(dir)))

\* lines 406-415: the size, or -1 (TILEDB_FS_ERR as a ssize_t)
file_size(b, filename) ==
  IF get_path(filename) \in DOMAIN b THEN b[get_path(filename)] ELSE -1

Without(f, name) == [q \in DOMAIN f \ {name} |-> f[q]]
With(f, name, v) == [q \in DOMAIN f \cup {name} |-> IF q = name THEN v ELSE f[q]]

\* a backend call as logged: which, on which blob, with what, and whether it
\* succeeded
Call(what, name, arg, ok) == [call |-> what, blob |-> name, arg |-> arg, ok |-> ok]

\* how a call ends: its return value, the data-plane calls it issued, and the
\* container and write_map_ it leaves
Result(ret, calls, b, s, m) ==
  [ret |-> ret, calls |-> calls, blobs |-> b, staged |-> s, map |-> m]

\* a refusal that forgets the pending writes
Rejects_DropsPending(b, s, m) == Result(TILEDB_FS_ERR, << >>, b, s, << >>)

\* AZ_BLOB_ERROR(...); return TILEDB_FS_ERR; before anything was asked of the
\* backend or recorded
Rejects(b, s, m) == Result(TILEDB_FS_ERR, << >>, b, s, m)

-----------------------------------------------------------------------------
(* The operations, each as the set of ways it can end from a container b,  *)
(* staged blocks s and write_map_ m.  The backend may fail any request.    *)

Parallelism == Min(hw \div 2, ClientConcurrency)

\* What one upload_block_blob can come to (SpecUpload has it step by step):
\* with no worker the promise is broken; otherwise success with every block
\* uploaded, or failure with some blocks attempted and some of those failed,
\* each worker failing at most once, a single worker going through the
\* indexes in order and stopping at its first error.
UploadOutcomes(nb, par) ==
  IF par = 0 THEN {[future |-> "broken", attempted |-> {}, errors |-> {}]}
  ELSE {[future |-> "success", attempted |-> 0..(nb - 1), errors |-> {}]}
       \cup { [future |-> "failure", attempted |-> a, errors |-> e] :
                <<a, e>> \in { x \in (SUBSET (0..(nb - 1))) \X (SUBSET (0..(nb - 1))) :
                    /\ x[2] # {}
                    /\ x[2] \subseteq x[1]
                    /\ Cardinality(x[2]) <= par
                    /\ par = 1 => \E k \in 0..(nb - 1) : x[1] = 0..k /\ x[2] = {k} } }

RECURSIVE UploadCalls(_, _, _, _, _, _)
\* the upload_block_from_buffer calls of an outcome, by block index from i on
UploadCalls(path, ids, bs, n, out, i) ==
  IF i >= Len(ids) THEN << >>
  ELSE (IF i \in out.attempted
          THEN <<Call("upload_block_from_buffer", path,
                      <<ids[i + 1], BlockLenOf(bs, n, i)>>, i \notin out.errors)>>
          ELSE << >>)
       \o UploadCalls(path, ids, bs, n, out, i + 1)

\* the blocks of the blob once the uploads that succeeded are staged
StageBlocks(s, path, ids, bs, n, out) ==
  LET old == IF path \in DOMAIN s THEN s[path] ELSE << >>
      new == { ids[i + 1] : i \in out.attempted \ out.errors }
      idx(id) == CHOOSE i \in out.attempted : ids[i + 1] = id
  IN  IF new = {} THEN s
      ELSE With(s, path, [id \in DOMAIN old \cup new |->
                            IF id \in new THEN BlockLenOf(bs, n, idx(id)) ELSE old[id]])

\* a zero-length branch taken for short buffers too
ZeroLength_Short(n) == n <= 1

\* line 511
ZeroLength(n) == n = 0

\* a write that never looks at the parent
ParentMissing_Never(b, filename) == FALSE

\* line 524, after the zero-length branch
ParentMissing(b, filename) == ~is_dir(b, parent_dir(filename))

\* lines 508-548
write_to_file(b, s, m, filename, n) ==
  LET path == get_path(filename)
  IN  IF ZeroLength(n) /\ ~blob_exists(b, path)
        THEN { Result(TILEDB_FS_OK, <<Call("create_append_blob", path, << >>, TRUE)>>,
                      With(b, path, 0), s, m),
               Result(TILEDB_FS_ERR, <<Call("create_append_blob", path, << >>, FALSE)>>,
                      b, s, m) }
      ELSE IF ParentMissing(b, filename)
        THEN { Rejects(b, s, m) }
      ELSE IF TooLarge(n)
        THEN { Rejects(b, s, m) }
      ELSE LET bs  == BlockSize(n)
               nb  == NumBlocks(n)
               ids == generate_block_ids(m, path, nb)
               m2  == AddPending(m, path, ids)
           IN  { Result(CASE out.future = "success" -> TILEDB_FS_OK
                          [] out.future = "failure" -> TILEDB_FS_ERR
                          [] OTHER -> THROWN,
                        UploadCalls(path, ids, bs, n, out, 0),
                        b, StageBlocks(s, path, ids, bs, n, out), m2) :
                 out \in UploadOutcomes(nb, Parallelism) }

RECURSIVE SumBlocks(_, _)
SumBlocks(blocks, list) ==
  IF list = << >> THEN 0 ELSE blocks[Head(list)] + SumBlocks(blocks, Tail(list))

\* Put Block List: the blob becomes the listed blocks, which must all be
\* staged; its other uncommitted blocks are dropped
put_block_list(b, s, name, list) ==
  LET blocks == IF name \in DOMAIN s THEN s[name] ELSE << >>
  IN  IF \A k \in 1..Len(list) : list[k] \in DOMAIN blocks
        THEN {[ok |-> TRUE, blobs |-> With(b, name, SumBlocks(blocks, list)),
               staged |-> Without(s, name)],
              [ok |-> FALSE, blobs |-> b, staged |-> s]}
        ELSE {[ok |-> FALSE, blobs |-> b, staged |-> s]}

\* the entry kept when the commit failed
EraseEntry_OnSuccess(m, filepath, ok) == IF ok THEN Without(m, filepath) ELSE m

\* line 569: the entry goes whether or not the commit succeeded
EraseEntry(m, filepath, ok) == Without(m, filepath)

\* lines 554-572 (sync_path and close_file, lines 574-580, are this call)
commit_file(b, s, m, path) ==
  LET filepath == get_path(path)
  IN  IF filepath \in DOMAIN m
        THEN { Result(IF put.ok THEN TILEDB_FS_OK ELSE TILEDB_FS_ERR,
                      <<Call("put_block_list", filepath, m[filepath], put.ok)>>,
                      put.blobs, put.staged, EraseEntry(m, filepath, put.ok)) :
               put \in put_block_list(b, s, filepath, m[filepath]) }
        ELSE { Result(TILEDB_FS_OK, << >>, b, s, m) }

\* lines 389-395
create_file(b, s, m, filename) ==
  IF is_file(b, filename) \/ is_dir(b, filename)
    THEN { Rejects(b, s, m) }
    ELSE write_to_file(b, s, m, filename, 0)

\* Delete Blob: the blob goes, with or without its uncommitted blocks; or
\* the request fails
delete_blob(b, s, name) ==
  {[ok |-> TRUE, blobs |-> Without(b, name), staged |-> s],
   [ok |-> TRUE, blobs |-> Without(b, name), staged |-> Without(s, name)],
   [ok |-> FALSE, blobs |-> b, staged |-> s]}

\* lines 397-404
delete_file(b, s, m, filename) ==
  IF ~is_file(b, filename)
    THEN { Rejects(b, s, m) }
    ELSE { Result(TILEDB_FS_OK, <<Call("delete_blob", get_path(filename), << >>, del.ok)>>,
                  del.blobs, del.staged, m) :
           del \in delete_blob(b, s, get_path(filename)) }

\* the length left out of the test
PastEnd_OffsetOnly(filesize, offset, length) == filesize < offset

\* line 430
PastEnd(filesize, offset, length) == filesize < length + offset

\* the choice made on the length asked for
UseStream_ByLength(filesize, length) == length < GRAIN_SIZE

\* line 438
UseStream(filesize, length) == filesize < GRAIN_SIZE

\* lines 419-450
read_from_file(b, s, m, filename, offset, length) ==
  LET path == get_path(filename)
      filesize == file_size(b, filename)
  IN  IF ~is_file(b, filename) THEN { Rejects(b, s, m) }
      ELSE IF filesize = -1 THEN { Rejects(b, s, m) }
      ELSE IF PastEnd(filesize, offset, length) THEN { Rejects(b, s, m) }
      ELSE IF length = 0 THEN { Result(TILEDB_FS_OK, << >>, b, s, m) }
      ELSE { Result(IF ok THEN TILEDB_FS_OK ELSE TILEDB_FS_ERR,
                    <<Call(IF UseStream(filesize, length)
                             THEN "download_blob_to_stream"
                             ELSE "download_blob_to_buffer",
                           path, <<offset, length>>, ok)>>,
                    b, s, m) : ok \in BOOLEAN }

\* the marker named without the slash between directory and name
MarkerPath_Unslashed(dir) == dir \o MARKER

\* lines 310, 322: slashified_dir + MARKER
MarkerPath(dir) == slashify(dir) \o MARKER

\* every path taken for the working directory
IsWorkingDir_Always(dir) == TRUE

\* line 318: working_dir.compare(dir) is 0
IsWorkingDir(dir) == working_dir = dir

\* lines 302-329
create_dir(b, s, m, dir) ==
  IF get_path(dir) = << >> THEN { Result(TILEDB_FS_OK, << >>, b, s, m) }
  ELSE IF is_dir(b, dir) THEN { Rejects(b, s, m) }
  ELSE IF SchemeAt(slashify(dir)) # {} /\ UriPath(slashify(dir)) = << >>
    THEN { Result(TILEDB_FS_OK, << >>, b, s, m) }
  ELSE IF ~IsWorkingDir(dir) /\ ~is_dir(b, parent_dir(dir))
    THEN { Rejects(b, s, m) }
  ELSE { Result(IF w.ret = TILEDB_FS_OK /\ is_dir(w.blobs, dir)
                  THEN TILEDB_FS_OK
                  ELSE IF w.ret = THROWN THEN THROWN ELSE TILEDB_FS_ERR,
                w.calls, w.blobs, w.staged, w.map) :
         w \in write_to_file(b, s, m, MarkerPath(dir), 0) }

-----------------------------------------------------------------------------
(* Spec: calls on one AzureBlob object, from an empty container.  fs_op    *)
(* keeps, with the call and its arguments, what held of its path before:   *)
(* whether the blob existed and the pending block list.                    *)

MaxPending == 2

FilePaths == { <<"d", "/", "f">> }
DirPaths == { <<"d">> }
WriteSizes == {0, 1, default_block_size + 1}
ReadOffsets == {0, 1}
ReadLengths == {0, 1, default_block_size + 1}
HwMachines == {1, 4}

Op(what, path, n, offset) ==
  [op |-> what, path |-> path, name |-> get_path(path), n |-> n, offset |-> offset,
   existed |-> blob_exists(blobs, get_path(path)),
   had_entry |-> get_path(path) \in DOMAIN write_map_,
   pending |-> PendingList(write_map_, get_path(path))]

Ends(op, r) ==
  /\ fs_op' = op
  /\ fs_ret' = r.ret
  /\ fs_calls' = r.calls
  /\ blobs' = r.blobs
  /\ staged' = r.staged
  /\ write_map_' = r.map
  /\ fs_list' = (IF "list" \in DOMAIN r THEN r.list ELSE << >>)
  /\ UNCHANGED <<wrVars, upVars, imVars, frVars>>

WriteToFile ==
  \E p \in FilePaths, n \in WriteSizes :
    /\ Len(PendingList(write_map_, get_path(p))) + NumBlocks(n) <= MaxPending
    /\ \E r \in write_to_file(blobs, staged, write_map_, p, n) :
         Ends(Op("write_to_file", p, n, 0), r)

CommitFile ==
  \E p \in FilePaths :
    \E r \in commit_file(blobs, staged, write_map_, p) :
      Ends(Op("commit_file", p, 0, 0), r)

CreateFile ==
  \E p \in FilePaths :
    \E r \in create_file(blobs, staged, write_map_, p) :
      Ends(Op("create_file", p, 0, 0), r)

DeleteFile ==
  \E p \in FilePaths :
    \E r \in delete_file(blobs, staged, write_map_, p) :
      Ends(Op("delete_file", p, 0, 0), r)

ReadFromFile ==
  \E p \in FilePaths, offset \in ReadOffsets, length \in ReadLengths :
    \E r \in read_from_file(blobs, staged, write_map_, p, offset, length) :
      Ends(Op("read_from_file", p, length, offset), r)

CreateDir ==
  \E d \in DirPaths :
    \E r \in create_dir(blobs, staged, write_map_, d) :
      Ends(Op("create_dir", d, 0, 0), r)

-----------------------------------------------------------------------------
(* URIs, the constructor, real_dir and move_path.  A URI reads             *)
(* protocol://container@account.rest/path.                                 *)

UriProtocol(uri) ==
  IF SchemeAt(uri) = {} THEN << >>
  ELSE SubSeq(uri, 1, (CHOOSE k \in SchemeAt(uri) : \A j \in SchemeAt(uri) : k <= j) - 1)

\* what stands between "://" and the path
UriHost(uri) ==
  IF SchemeAt(uri) = {} THEN << >>
  ELSE SubSeq(uri, (CHOOSE k \in SchemeAt(uri) : \A j \in SchemeAt(uri) : k <= j) + 3,
              Len(uri) - Len(UriPath(uri)))

FirstOf(str, c) ==
  IF \E k \in 1..Len(str) : str[k] = c
    THEN CHOOSE k \in 1..Len(str) : str[k] = c /\ \A j \in 1..(k - 1) : str[j] # c
    ELSE 0

\* azure_uri::container(): the host up to its '@'
UriContainer(uri) ==
  IF FirstOf(UriHost(uri), "@") = 0 THEN << >>
  ELSE SubSeq(UriHost(uri), 1, FirstOf(UriHost(uri), "@") - 1)

\* azure_uri::account(): the host between its '@' and its first '.'
UriAccount(uri) ==
  IF FirstOf(UriHost(uri), "@") = 0 \/ FirstOf(UriHost(uri), ".") = 0 THEN << >>
  ELSE SubSeq(UriHost(uri), FirstOf(UriHost(uri), "@") + 1, FirstOf(UriHost(uri), ".") - 1)

\* the home URI this object was constructed from, az://c@a.b/w, and the
\* fields the constructor took from it (lines 256-257)
HomeUri == <<"a", "z", ":", "/", "/", "c", "@", "a", ".", "b", "/", "w">>
account_name == UriAccount(HomeUri)
container_name == UriContainer(HomeUri)

\* the containers of the account
ExistingContainers == { <<"c">> }

\* a call that returned a value which is not a status
Returned(list, calls, b, s, m) ==
  [ret |-> "returned", calls |-> calls, blobs |-> b, staged |-> s, map |-> m, list |-> list]

\* a call that ended by throwing std::system_error or std::runtime_error
Threw(code, calls, b, s, m) ==
  [ret |-> THROWN, calls |-> calls, blobs |-> b, staged |-> s, map |-> m, list |-> <<code>>]

\* line 252: outcome.success() || !bc->container_exists(...)
RefusesContainer(properties_ok, exists) == properties_ok \/ ~exists

\* lines 213-264: the construction of another AzureBlob on the account, from
\* the URI home, with or without credentials to be had (lines 226-240) and
\* with the container-properties request succeeding or not (line 251)
AzureBlob(b, s, m, home, credentials, properties_ok) ==
  LET exists == UriContainer(home) \in ExistingContainers
      asked == <<Call("get_container_properties", << >>, << >>, properties_ok)>>
  IN  IF UriProtocol(home) # <<"a", "z">> THEN Threw("EPROTONOSUPPORT", << >>, b, s, m)
      ELSE IF UriAccount(home) = << >> \/ UriContainer(home) = << >>
        THEN Threw("EPROTO", << >>, b, s, m)
      ELSE IF ~credentials THEN Threw("EIO", << >>, b, s, m)
      ELSE IF RefusesContainer(properties_ok, exists)
        THEN Threw("EIO",
                   IF properties_ok THEN asked
                   ELSE asked \o <<Call("container_exists", UriContainer(home), << >>, exists)>>,
                   b, s, m)
      ELSE Returned(<<get_path(UriPath(home))>>,
                    asked \o <<Call("container_exists", UriContainer(home), << >>, exists)>>,
                    b, s, m)

\* lines 290-300
real_dir(b, s, m, dir) ==
  IF SchemeAt(dir) # {}
    THEN IF UriAccount(dir) # account_name \/ UriContainer(dir) # container_name
           THEN Threw("runtime_error", << >>, b, s, m)
           ELSE Returned(<<get_path(UriPath(dir))>>, << >>, b, s, m)
    ELSE Returned(<<get_path(dir)>>, << >>, b, s, m)

\* a move that is carried out
MoveEffect_Renames(b, old_path, new_path) ==
  IF get_path(old_path) \in DOMAIN b
    THEN With(Without(b, get_path(old_path)), get_path(new_path), b[get_path(old_path)])
    ELSE b

\* lines 550-552: nothing is touched
MoveEffect(b, old_path, new_path) == b

\* lines 550-552
move_path(b, s, m, old_path, new_path) ==
  Threw("EPROTONOSUPPORT", << >>, MoveEffect(b, old_path, new_path), s, m)

\* lines 582-585
locking_support == FALSE

\* the arguments of the calls of SpecObj; a construction is logged with 1
\* for n when credentials were to be had
HomeOther == <<"a", "z", ":", "/", "/", "x", "@", "a", ".", "b", "/", "w">>
HomeNoContainer == <<"a", "z", ":", "/", "/", "@", "a", ".", "b", "/", "w">>
HomeNoAccount == <<"a", "z", ":", "/", "/", "c", "/", "w">>
HomeOtherProtocol == <<"g", "s", ":", "/", "/", "c", "@", "a", ".", "b", "/", "w">>
Homes == { HomeUri, HomeOther, HomeNoContainer, HomeNoAccount, HomeOtherProtocol }

MovePaths == FilePaths \cup DirPaths
RealDirArgs == DirPaths \cup { HomeUri \o <<"/", "d">>, HomeOther \o <<"/", "d">> }

Construct ==
  \E home \in Homes, credentials \in BOOLEAN, properties_ok \in BOOLEAN :
    Ends(Op("AzureBlob", home, IF credentials THEN 1 ELSE 0, 0),
         AzureBlob(blobs, staged, write_map_, home, credentials, properties_ok))

RealDir ==
  \E d \in RealDirArgs :
    Ends(Op("real_dir", d, 0, 0), real_dir(blobs, staged, write_map_, d))

MovePath ==
  \E old_path \in MovePaths, new_path \in MovePaths :
    Ends(Op("move_path", old_path, 0, 0),
         move_path(blobs, staged, write_map_, old_path, new_path))

Init ==
  /\ blobs = << >>
  /\ staged = << >>
  /\ write_map_ = << >>
  /\ fs_op = [op |-> "none", path |-> << >>, name |-> << >>, n |-> 0, offset |-> 0,
              existed |-> FALSE, had_entry |-> FALSE, pending |-> << >>]
  /\ fs_ret = TILEDB_FS_OK
  /\ fs_calls = << >>
  /\ fs_list = << >>
  /\ ImIdle
  /\ FrIdle
  /\ hw \in HwMachines
  /\ CtxIdle
  /\ WrIdle

Next ==
  \/ WriteToFile
  \/ CommitFile
  \/ CreateFile
  \/ DeleteFile
  \/ ReadFromFile
  \/ CreateDir

Spec == Init /\ [][Next]_vars

\* SpecObj: the calls that leave the container alone (the construction of
\* another object, real_dir, move_path), among writes and commits that fill
\* the container and the pending-write map.
NextObj ==
  \/ WriteToFile
  \/ CommitFile
  \/ Construct
  \/ RealDir
  \/ MovePath

SpecObj == Init /\ [][NextObj]_vars

-----------------------------------------------------------------------------
(* Properties of the file-system calls (Spec).                             *)

\* Every way SpecUpload lets a write_to_file end is one of UploadOutcomes
\* (checked under SpecUpload).
UploadOutcomesCoverUpload ==
  wr_pc = "done" =>
    [future |-> future, attempted |-> {a.idx : a \in attempts}, errors |-> upload_errors]
      \in UploadOutcomes(num_blocks, parallelism)

Appeared == DOMAIN blobs' \ DOMAIN blobs

ByCommit(q) ==
  /\ fs_op'.op = "commit_file"
  /\ fs_op'.name = q
  /\ Len(fs_calls') = 1
  /\ fs_calls'[1].call = "put_block_list"
  /\ fs_calls'[1].blob = q
  /\ fs_calls'[1].ok

ByEmptyWrite(q) ==
  /\ fs_op'.op \in {"write_to_file", "create_file", "create_dir"}
  /\ fs_op'.n = 0
  /\ Len(fs_calls') = 1
  /\ fs_calls'[1].call = "create_append_blob"
  /\ fs_calls'[1].blob = q
  /\ fs_calls'[1].ok

CommittedNow ==
  (fs_op.op = "commit_file" /\ fs_calls # << >> /\ fs_ret = TILEDB_FS_OK)
    => blob_exists(blobs, fs_op.name)

\* C1 as stated: a blob that did not exist comes to exist only by
\* commit_file's block-list commit, whatever the length written before, and
\* exists after a successful commit.
C1_VisibleOnlyByCommit ==
  /\ [][\A q \in Appeared : ByCommit(q)]_vars
  /\ []CommittedNow

\* C1, amended: a blob that did not exist comes to exist only by commit_file's
\* successful block-list commit, or at once by a zero-length write
\* (create_append_blob); a write of n > 0 bytes never makes it exist; after a
\* successful block-list commit it exists.
C1_VisibleByCommitOrEmptyWrite ==
  /\ [][\A q \in Appeared : ByCommit(q) \/ ByEmptyWrite(q)]_vars
  /\ [][(fs_op'.op = "write_to_file" /\ fs_op'.n > 0) => Appeared = {}]_vars
  /\ []CommittedNow

C1_Witness ==
  /\ fs_op.op = "commit_file"
  /\ ~fs_op.existed
  /\ Len(fs_op.pending) = 2
  /\ fs_ret = TILEDB_FS_OK
  /\ blob_exists(blobs, fs_op.name)
  /\ blobs[fs_op.name] = default_block_size + 1

\* C2: commit_file issues exactly one put_block_list, with the pending list,
\* when the path has an entry in write_map_, and nothing (returning
\* TILEDB_FS_OK) when it has none; the path has no entry afterwards, and a
\* commit_file right after a commit_file of the same path does nothing and
\* returns TILEDB_FS_OK.
C2_CommitOnce ==
  /\ [](fs_op.op = "commit_file" =>
          /\ fs_op.name \notin DOMAIN write_map_
          /\ fs_op.had_entry =>
               /\ Len(fs_calls) = 1
               /\ fs_calls[1].call = "put_block_list"
               /\ fs_calls[1].blob = fs_op.name
               /\ fs_calls[1].arg = fs_op.pending
               /\ fs_ret = (IF fs_calls[1].ok THEN TILEDB_FS_OK ELSE TILEDB_FS_ERR)
          /\ ~fs_op.had_entry => fs_calls = << >> /\ fs_ret = TILEDB_FS_OK)
  /\ [][(fs_op.op = "commit_file" /\ fs_op'.op = "commit_file"
           /\ fs_op'.name = fs_op.name)
          => /\ fs_calls' = << >>
             /\ fs_ret' = TILEDB_FS_OK
             /\ <<blobs, staged, write_map_>>' = <<blobs, staged, write_map_>>]_vars

C2_Witness ==
  /\ fs_op.op = "commit_file"
  /\ fs_op.had_entry
  /\ Len(fs_op.pending) = 2
  /\ fs_ret = TILEDB_FS_ERR
  /\ fs_op.name \notin DOMAIN write_map_

\* C25: when commit_file returns TILEDB_FS_ERR because put_block_list failed,
\* the blocks stay pending in write_map_, and a commit_file of the same path
\* right after it issues put_block_list with them again instead of returning
\* TILEDB_FS_OK with nothing committed.
C25_FailedCommitKeepsPending ==
  /\ []((fs_op.op = "commit_file" /\ fs_ret = TILEDB_FS_ERR) =>
          /\ fs_op.name \in DOMAIN write_map_
          /\ PendingList(write_map_, fs_op.name) = fs_op.pending)
  /\ [][(fs_op.op = "commit_file" /\ fs_ret = TILEDB_FS_ERR
           /\ fs_op'.op = "commit_file" /\ fs_op'.name = fs_op.name)
          => /\ Len(fs_calls') = 1
             /\ fs_calls'[1].call = "put_block_list"
             /\ fs_calls'[1].arg = fs_op.pending]_vars

\* C9: read_from_file returns TILEDB_FS_OK only for an existing file with
\* offset + length within its size, having asked the backend for exactly
\* that range (for nothing when length is 0); for a missing file or a range
\* past the end it returns TILEDB_FS_ERR and issues no download.
C9_ReadWithinFile ==
  fs_op.op = "read_from_file" =>
    LET exists == blob_exists(blobs, fs_op.name)
        within == exists /\ fs_op.offset + fs_op.n <= blobs[fs_op.name]
    IN  /\ fs_ret \in {TILEDB_FS_OK, TILEDB_FS_ERR}
        /\ fs_ret = TILEDB_FS_OK =>
             /\ within
             /\ fs_op.n = 0 => fs_calls = << >>
             /\ fs_op.n > 0 =>
                  /\ Len(fs_calls) = 1
                  /\ fs_calls[1].call \in {"download_blob_to_stream", "download_blob_to_buffer"}
                  /\ fs_calls[1].blob = fs_op.name
                  /\ fs_calls[1].arg = <<fs_op.offset, fs_op.n>>
                  /\ fs_calls[1].ok
        /\ ~within => fs_ret = TILEDB_FS_ERR /\ fs_calls = << >>

C9_Witness ==
  /\ fs_op.op = "read_from_file"
  /\ fs_ret = TILEDB_FS_OK
  /\ fs_op.offset = 1
  /\ fs_op.n = 1
  /\ blobs[fs_op.name] = default_block_size + 1

\* the call that ends in the next state writes to a path, or creates a file
\* at a path, whose parent is not a directory in this state
WritesUnderMissingParent ==
  /\ \/ fs_op'.op = "write_to_file"
     \/ fs_op'.op = "create_file" /\ ~is_file(blobs, fs_op'.path) /\ ~is_dir(blobs, fs_op'.path)
  /\ ~is_dir(blobs, parent_dir(fs_op'.path))

NothingDone ==
  /\ fs_calls' = << >>
  /\ <<blobs, staged, write_map_>>' = <<blobs, staged, write_map_>>

\* C28 as stated: write_to_file(f, buf, n) returns TILEDB_FS_ERR and creates or
\* uploads nothing when the parent of f is not a directory, for every n,
\* 0 included, so that create_file(f) fails under a missing parent.
C28_NoWriteUnderMissingParent ==
  [][WritesUnderMissingParent => (fs_ret' = TILEDB_FS_ERR /\ NothingDone)]_vars

\* C28, amended: under a parent that is not a directory write_to_file returns
\* TILEDB_FS_ERR and does nothing when n > 0; with n = 0 and no blob at f the
\* parent is not looked at: create_append_blob is called, and when it
\* succeeds the blob exists, empty, and the call (create_file too) returns
\* TILEDB_FS_OK.
C28_NoDataUnderMissingParent ==
  [][WritesUnderMissingParent =>
       /\ fs_op'.n > 0 => (fs_ret' = TILEDB_FS_ERR /\ NothingDone)
       /\ (fs_op'.n = 0 /\ ~blob_exists(blobs, fs_op'.name)) =>
            /\ Len(fs_calls') = 1
            /\ fs_calls'[1].call = "create_append_blob"
            /\ fs_calls'[1].blob = fs_op'.name
            /\ fs_ret' = (IF fs_calls'[1].ok THEN TILEDB_FS_OK ELSE TILEDB_FS_ERR)
            /\ blobs' = (IF fs_calls'[1].ok THEN With(blobs, fs_op'.name, 0) ELSE blobs)
            /\ <<staged, write_map_>>' = <<staged, write_map_>>]_vars

\* the empty container refuses a write of one byte under the missing d
C28_Witness ==
  /\ fs_op.op = "write_to_file"
  /\ fs_op.n > 0
  /\ blobs = << >>
  /\ fs_ret = TILEDB_FS_ERR
  /\ fs_calls = << >>
  /\ write_map_ = << >>

DeletedOk == fs_op.op = "delete_file" /\ fs_ret = TILEDB_FS_OK

\* C27: after delete_file(p) returns TILEDB_FS_OK, is_file(p) is false, and a
\* commit_file (sync_path, close_file) of p that follows the delete with no
\* write in between leaves it false, even when blocks were pending for p.
C27_DeletedStaysDeleted ==
  /\ [](DeletedOk => ~is_file(blobs, fs_op.path))
  /\ [][(DeletedOk /\ ~is_file(blobs, fs_op.path)
           /\ fs_op'.op = "commit_file" /\ fs_op'.name = fs_op.name)
          => ~is_file(blobs', fs_op.path)]_vars

\* The second half of C27 alone: a file that delete_file did remove comes
\* back by the commit_file that follows.
C27_CommitAfterDeleteKeepsDeleted ==
  [][(DeletedOk /\ ~is_file(blobs, fs_op.path)
       /\ fs_op'.op = "commit_file" /\ fs_op'.name = fs_op.name)
      => ~is_file(blobs', fs_op.path)]_vars

Downloads == fs_op.op = "read_from_file" /\ fs_calls # << >>

\* C10 as stated: the length asked for decides between the single range GET
\* and the parallel download.
C10_ChosenByLength ==
  Downloads =>
    /\ fs_op.n < GRAIN_SIZE => fs_calls[1].call = "download_blob_to_stream"
    /\ fs_op.n >= GRAIN_SIZE => fs_calls[1].call = "download_blob_to_buffer"

\* C10, amended: the size of the file decides: a file smaller than
\* GRAIN_SIZE is read with download_blob_to_stream, a file of GRAIN_SIZE or
\* more with download_blob_to_buffer, whatever the length asked for.
C10_ChosenByFileSize ==
  Downloads =>
    /\ Len(fs_calls) = 1
    /\ blobs[fs_op.name] < GRAIN_SIZE => fs_calls[1].call = "download_blob_to_stream"
    /\ blobs[fs_op.name] >= GRAIN_SIZE => fs_calls[1].call = "download_blob_to_buffer"

C10_Witness ==
  /\ Downloads
  /\ fs_op.n < GRAIN_SIZE
  /\ blobs[fs_op.name] >= GRAIN_SIZE
  /\ fs_calls[1].call = "download_blob_to_buffer"

-----------------------------------------------------------------------------
(* Directories.  The backend lists the blobs under a prefix with the       *)
(* delimiter "/": a blob directly under the prefix is listed by its full   *)
(* name, the blobs further down are rolled up into one directory entry     *)
(* per next path segment, its name ending in "/".                          *)

unslashify(path) ==
  IF path # << >> /\ path[Len(path)] = "/" THEN SubSeq(path, 1, Len(path) - 1) ELSE path

ListEntry(name, prefix) ==
  LET rest == SubSeq(name, Len(prefix) + 1, Len(name))
      cuts == { k \in 1..Len(rest) : rest[k] = "/" }
  IN  IF cuts = {}
        THEN [name |-> name, is_directory |-> FALSE]
        ELSE [name |-> prefix \o SubSeq(rest, 1, CHOOSE k \in cuts : \A j \in cuts : k <= j),
              is_directory |-> TRUE]

RECURSIVE SeqOf(_)
\* the entries of a response, in the one order the model gives them
SeqOf(S) ==
  IF S = {} THEN << >>
  ELSE LET x == CHOOSE x \in S : TRUE IN <<x>> \o SeqOf(S \ {x})

\* list_blobs_segmented(container_name, "/", "", prefix, INT_MAX).blobs
list_blobs_segmented(b, prefix) ==
  SeqOf({ ListEntry(name, prefix) : name \in { x \in DOMAIN b : starts_with(x, prefix) } })

\* lines 355-369
get_dirs(b, dir) ==
  IF is_dir(b, dir)
    THEN LET response == list_blobs_segmented(b, slashify(get_path(dir)))
             IsDirectory(e) == e.is_directory
             kept == SelectSeq(response, IsDirectory)
         IN  [k \in 1..Len(kept) |-> unslashify(kept[k].name)]
    ELSE << >>

\* line 379: the listed name is compared with MARKER
NotMarker(name) == name # MARKER

\* lines 371-387
get_files(b, dir) ==
  IF is_dir(b, dir)
    THEN LET response == list_blobs_segmented(b, slashify(get_path(dir)))
             IsFile(e) == ~e.is_directory /\ NotMarker(e.name)
             kept == SelectSeq(response, IsFile)
         IN  [k \in 1..Len(kept) |-> kept[k].name]
    ELSE << >>

RECURSIVE delete_dir(_, _, _, _)
RECURSIVE DeleteEntries(_, _, _, _, _, _)

\* lines 331-353.  rc is set at line 337 and never again.
delete_dir(b, s, m, dir) ==
  IF ~is_dir(b, dir) THEN { Rejects(b, s, m) }
  ELSE DeleteEntries(list_blobs_segmented(b, slashify(get_path(dir))),
                     TILEDB_FS_OK, << >>, b, s, m)

\* lines 341-350: the loop over the response, from its first entry left.
\* The value of the recursive delete_dir is dropped (line 343); a blob that
\* still exists after delete_blob is only logged (lines 346-348).
DeleteEntries(response, rc, calls, b, s, m) ==
  IF response = << >> THEN { Result(rc, calls, b, s, m) }
  ELSE LET e == Head(response)
       IN  IF e.is_directory
             THEN UNION { DeleteEntries(Tail(response), rc,
                                        calls \o <<Call("delete_dir", e.name, << >>,
                                                        sub.ret = TILEDB_FS_OK)>>
                                              \o sub.calls,
                                        sub.blobs, sub.staged, sub.map) :
                          sub \in delete_dir(b, s, m, e.name) }
             ELSE UNION { DeleteEntries(Tail(response), rc,
                                        calls \o <<Call("delete_blob", e.name, << >>, del.ok)>>,
                                        del.blobs, del.staged, m) :
                          del \in delete_blob(b, s, e.name) }

-----------------------------------------------------------------------------
(* SpecDir: the directory and listing calls on one AzureBlob object, from  *)
(* an empty container, with paths given relative to the working            *)
(* directory, absolute, and as az:// URIs, inside and outside the working  *)
(* directory.  Files are made by create_file (zero-length).                *)

EmptyPath == << >>
RootPath == <<"/">>
RelD == <<"d">>
RelDE == <<"d", "/", "e">>
AbsD == <<"/", "w", "/", "d">>
UriD == HomeUri \o <<"/", "d">>
AbsX == <<"/", "x">>
AbsXY == <<"/", "x", "/", "y">>

DirArgs == { EmptyPath, RootPath, working_dir, RelD, RelDE, AbsD, UriD, AbsX, AbsXY }
FileArgs == { <<"d", "/", "f">>, <<"d", "/", "e", "/", "g">> }

DirCreateDir ==
  \E d \in DirArgs :
    \E r \in create_dir(blobs, staged, write_map_, d) :
      Ends(Op("create_dir", d, 0, 0), r)

DirDeleteDir ==
  \E d \in DirArgs :
    \E r \in delete_dir(blobs, staged, write_map_, d) :
      Ends(Op("delete_dir", d, 0, 0), r)

DirCreateFile ==
  \E p \in FileArgs :
    \E r \in create_file(blobs, staged, write_map_, p) :
      Ends(Op("create_file", p, 0, 0), r)

DirDeleteFile ==
  \E p \in FileArgs :
    \E r \in delete_file(blobs, staged, write_map_, p) :
      Ends(Op("delete_file", p, 0, 0), r)

DirGetDirs ==
  \E d \in DirArgs :
    Ends(Op("get_dirs", d, 0, 0), Returned(get_dirs(blobs, d), << >>, blobs, staged, write_map_))

DirGetFiles ==
  \E d \in DirArgs :
    Ends(Op("get_files", d, 0, 0), Returned(get_files(blobs, d), << >>, blobs, staged, write_map_))

InitDir ==
  /\ blobs = << >>
  /\ staged = << >>
  /\ write_map_ = << >>
  /\ fs_op = [op |-> "none", path |-> << >>, name |-> << >>, n |-> 0, offset |-> 0,
              existed |-> FALSE, had_entry |-> FALSE, pending |-> << >>]
  /\ fs_ret = TILEDB_FS_OK
  /\ fs_calls = << >>
  /\ fs_list = << >>
  /\ ImIdle
  /\ FrIdle
  /\ hw = 4
  /\ CtxIdle
  /\ WrIdle

NextDir ==
  \/ DirCreateDir
  \/ DirDeleteDir
  \/ DirCreateFile
  \/ DirDeleteFile
  \/ DirGetDirs
  \/ DirGetFiles

SpecDir == InitDir /\ [][NextDir]_vars

\* C30: get_path(get_path(p)) = get_path(p) for every path p given to a call,
\* relative, absolute or URI, so that a blob name handed back to a call (as
\* delete_dir does with a listed name) denotes the same blob.
C30_GetPathIdempotent ==
  fs_op.op # "none" => get_path(fs_op.name) = fs_op.name

-----------------------------------------------------------------------------
(* SpecFrame: the calls that can refuse on a precondition, among writes    *)
(* and commits, from an empty container: the calls of Spec with a buffer   *)
(* over the size limit among the writes, and create_dir and delete_dir on  *)
(* the path the files are made at.                                         *)

OversizedWrite == max_num_blocks * max_block_size + 1

\* the one path of Spec, made a directory as well as a file
FrameDirs == FilePaths

FrameWriteToFile ==
  \E p \in FilePaths, n \in WriteSizes \cup {OversizedWrite} :
    /\ TooLarge(n) \/ Len(PendingList(write_map_, get_path(p))) + NumBlocks(n) <= MaxPending
    /\ \E r \in write_to_file(blobs, staged, write_map_, p, n) :
         Ends(Op("write_to_file", p, n, 0), r)

FrameCreateDir ==
  \E d \in FrameDirs :
    \E r \in create_dir(blobs, staged, write_map_, d) :
      Ends(Op("create_dir", d, 0, 0), r)

FrameDeleteDir ==
  \E d \in FrameDirs :
    \E r \in delete_dir(blobs, staged, write_map_, d) :
      Ends(Op("delete_dir", d, 0, 0), r)

NextFrame ==
  \/ FrameWriteToFile
  \/ CommitFile
  \/ CreateFile
  \/ DeleteFile
  \/ ReadFromFile
  \/ FrameCreateDir
  \/ FrameDeleteDir

SpecFrame == InitDir /\ [][NextFrame]_vars

\* the call that ends in the next state finds one of its preconditions
\* failed in this one
FailedPrecondition ==
  LET o == fs_op'
  IN  \/ o.op = "create_file" /\ (is_file(blobs, o.path) \/ is_dir(blobs, o.path))
      \/ o.op = "delete_file" /\ ~is_file(blobs, o.path)
      \/ o.op = "delete_dir" /\ ~is_dir(blobs, o.path)
      \/ o.op = "create_dir" /\ (is_dir(blobs, o.path) \/ ~is_dir(blobs, parent_dir(o.path)))
      \/ o.op = "read_from_file"
           /\ (~is_file(blobs, o.path) \/ file_size(blobs, o.path) < o.offset + o.n)
      \/ o.op = "write_to_file"
           /\ (TooLarge(o.n) \/ ~is_dir(blobs, parent_dir(o.path)))

\* C26: a call that returns TILEDB_FS_ERR on a failed precondition
\* (create_file on an existing file or directory, delete_file on a non-file,
\* delete_dir on a non-directory, create_dir on an existing directory or under
\* a missing parent, read_from_file on a missing file or past the end,
\* write_to_file with too large a buffer or under a missing parent) leaves the
\* blobs, their contents (staged blocks included) and write_map_ as they were.
C26_RefusalChangesNothing ==
  [][(fs_ret' = TILEDB_FS_ERR /\ FailedPrecondition)
       => <<blobs, staged, write_map_>>' = <<blobs, staged, write_map_>>]_vars

C26_Witness ==
  /\ fs_op.op = "write_to_file"
  /\ TooLarge(fs_op.n)
  /\ fs_ret = TILEDB_FS_ERR
  /\ fs_calls = << >>
  /\ fs_op.existed
  /\ blob_exists(blobs, fs_op.name)
  /\ Len(fs_op.pending) = 2
  /\ PendingList(write_map_, fs_op.name) = fs_op.pending
  /\ staged # << >>

\* C29: after any sequence of create_dir, create_file, write_to_file,
\* commit_file, delete_file and delete_dir from an empty container, no path
\* but the root is both a file and a directory.
C29_NeverFileAndDir ==
  \A p \in FilePaths \cup FrameDirs :
    get_path(p) # << >> => ~(is_file(blobs, p) /\ is_dir(blobs, p))

-----------------------------------------------------------------------------
(* Properties of the directory calls (SpecDir).                            *)

\* the blob names under the resolved directory, "d/..."
Under(b, d) == { name \in DOMAIN b : starts_with(name, slashify(get_path(d))) }

MarkerOf(d) == slashify(get_path(d)) \o MARKER

IsRoot(d) == get_path(d) = << >>

\* C11 as stated: is_dir(d) is true exactly when d resolves to the container
\* root, or the blob d/.dir.marker exists, or some blob name has the prefix
\* d/.
C11_IsDirExactly ==
  \A d \in DirArgs \cup FileArgs :
    is_dir(blobs, d) <=>
      (IsRoot(d) \/ blob_exists(blobs, MarkerOf(d)) \/ Under(blobs, d) # {})

\* C11, amended: is_dir(d) is true exactly when d is the empty string, or d
\* resolves to the container root, or the blob d/.dir.marker exists, or some
\* blob name has the prefix d/.
C11_IsDirOrEmptyString ==
  \A d \in DirArgs \cup FileArgs :
    is_dir(blobs, d) <=>
      (d = << >> \/ IsRoot(d) \/ blob_exists(blobs, MarkerOf(d)) \/ Under(blobs, d) # {})

\* a directory by its marker, one by a blob under it only, and a path that
\* is none, in one state
C11_Witness ==
  /\ blob_exists(blobs, MarkerOf(AbsX)) /\ is_dir(blobs, AbsX)
  /\ ~blob_exists(blobs, MarkerOf(UriD)) /\ Under(blobs, UriD) # {} /\ is_dir(blobs, UriD)
  /\ ~is_dir(blobs, RelDE)
  /\ ~is_dir(blobs, AbsXY)

IsCreateDir == fs_op.op = "create_dir"

\* C12: when create_dir(d) returns TILEDB_FS_OK, is_dir(d) holds afterwards
\* and, unless d is the container root, the blob d/.dir.marker exists with
\* length 0; a create_dir call, whatever it returns, adds no blob other than
\* that marker and changes no blob that was there.
C12_CreateDirMakesMarker ==
  /\ []((IsCreateDir /\ fs_ret = TILEDB_FS_OK) =>
          /\ is_dir(blobs, fs_op.path)
          /\ ~IsRoot(fs_op.path) =>
               /\ blob_exists(blobs, MarkerOf(fs_op.path))
               /\ blobs[MarkerOf(fs_op.path)] = 0)
  /\ [][fs_op'.op = "create_dir" =>
          /\ DOMAIN blobs' \ DOMAIN blobs \subseteq {MarkerOf(fs_op'.path)}
          /\ \A name \in DOMAIN blobs : name \in DOMAIN blobs' /\ blobs'[name] = blobs[name]]_vars

\* a nested directory made by an absolute path under a parent that exists,
\* in a state where another was made by a URI
C12_Witness ==
  /\ IsCreateDir
  /\ fs_op.path = AbsXY
  /\ fs_ret = TILEDB_FS_OK
  /\ ~fs_op.existed
  /\ Len(fs_calls) = 1 /\ fs_calls[1].call = "create_append_blob" /\ fs_calls[1].ok
  /\ blob_exists(blobs, MarkerOf(AbsXY))
  /\ blob_exists(blobs, MarkerOf(UriD))

\* the call refused, nothing written
Refused == fs_ret' = TILEDB_FS_ERR /\ fs_calls' = << >> /\ blobs' = blobs

\* C13 as stated: create_dir(d) returns TILEDB_FS_ERR and writes nothing when
\* d is already a directory, and when d's parent is not a directory unless d
\* is the working directory.
C13_RefusesExistingOrOrphan ==
  [][fs_op'.op = "create_dir" =>
       /\ is_dir(blobs, fs_op'.path) => Refused
       /\ (~is_dir(blobs, parent_dir(fs_op'.path)) /\ fs_op'.path # working_dir) => Refused]_vars

\* C13, amended: as stated, except that create_dir of a path that resolves to
\* the container root returns TILEDB_FS_OK (and writes nothing).
C13_RefusesExistingButRoot ==
  [][fs_op'.op = "create_dir" =>
       /\ (is_dir(blobs, fs_op'.path) /\ ~IsRoot(fs_op'.path)) => Refused
       /\ (~is_dir(blobs, parent_dir(fs_op'.path)) /\ fs_op'.path # working_dir) => Refused
       /\ IsRoot(fs_op'.path) =>
            fs_ret' = TILEDB_FS_OK /\ fs_calls' = << >> /\ blobs' = blobs]_vars

\* create_dir refused for a directory that has its marker, in a state where
\* the working directory was made without its parent being one
C13_Witness ==
  /\ IsCreateDir
  /\ fs_op.path = RelD
  /\ fs_ret = TILEDB_FS_ERR
  /\ fs_calls = << >>
  /\ blob_exists(blobs, MarkerOf(RelD))
  /\ blob_exists(blobs, MarkerOf(working_dir))
  /\ ~is_dir(blobs, RelDE)

IsDeleteDir == fs_op.op = "delete_dir"

\* C14: when delete_dir(d) returns TILEDB_FS_OK no blob with the prefix d/
\* remains, at any depth, for d relative, absolute or a URI, and is_dir(d)
\* is false afterwards (read for the d that name a directory of their own:
\* not the empty string, not the container root).
C14_DeleteDirLeavesNothing ==
  (IsDeleteDir /\ fs_ret = TILEDB_FS_OK /\ fs_op.path # << >> /\ ~IsRoot(fs_op.path)) =>
    /\ Under(blobs, fs_op.path) = {}
    /\ ~is_dir(blobs, fs_op.path)

\* What does hold: a delete_dir that returned TILEDB_FS_OK, all of whose
\* delete_blob requests and nested delete_dir calls succeeded, left nothing
\* under d.
C14_NothingLeftIfNothingFailed ==
  (IsDeleteDir /\ fs_ret = TILEDB_FS_OK /\ \A k \in 1..Len(fs_calls) : fs_calls[k].ok)
    => Under(blobs, fs_op.path) = {}

\* C15: delete_dir returns TILEDB_FS_ERR when a blob under d still exists
\* after its deletion or a nested delete_dir failed; delete_file returns
\* TILEDB_FS_ERR when the blob still exists after the delete.
C15_DeleteFailurePropagates ==
  /\ (IsDeleteDir /\ \E k \in 1..Len(fs_calls) : ~fs_calls[k].ok)
       => fs_ret = TILEDB_FS_ERR
  /\ (fs_op.op = "delete_file" /\ blob_exists(blobs, fs_op.name))
       => fs_ret = TILEDB_FS_ERR

\* the prefix of the names under d: "d/", and nothing for the container root
ChildPrefix(d) == IF IsRoot(d) THEN << >> ELSE slashify(get_path(d))

\* what follows the prefix in the names that have it
Rests(b, d) ==
  { SubSeq(name, Len(ChildPrefix(d)) + 1, Len(name)) :
      name \in { x \in DOMAIN b : starts_with(x, ChildPrefix(d)) } }

HasSlash(rest) == \E k \in 1..Len(rest) : rest[k] = "/"

FirstSegment(rest) ==
  SubSeq(rest, 1, (CHOOSE k \in 1..Len(rest) : rest[k] = "/" /\ \A j \in 1..(k - 1) : rest[j] # "/") - 1)

\* the blobs that are immediate children of d, the marker apart
ChildFiles(b, d) ==
  { ChildPrefix(d) \o rest : rest \in { x \in Rests(b, d) : ~HasSlash(x) /\ x # MARKER } }

\* the immediate sub-directories of d
ChildDirs(b, d) ==
  { ChildPrefix(d) \o FirstSegment(rest) : rest \in { x \in Rests(b, d) : HasSlash(x) } }

Names(list) == { list[k] : k \in 1..Len(list) }

\* C16: get_files(d) returns exactly the blobs that are immediate children
\* of d, never d's .dir.marker; get_dirs(d) returns exactly d's immediate
\* sub-directories, without trailing slash; each once; for a path that is
\* not a directory both return the empty list (read for the d that are not
\* the container root).
C16_ListsImmediateChildren ==
  /\ (fs_op.op = "get_files" /\ ~IsRoot(fs_op.path)) =>
       IF is_dir(blobs, fs_op.path)
         THEN /\ Names(fs_list) = ChildFiles(blobs, fs_op.path)
              /\ Cardinality(Names(fs_list)) = Len(fs_list)
         ELSE fs_list = << >>
  /\ (fs_op.op = "get_dirs" /\ ~IsRoot(fs_op.path)) =>
       IF is_dir(blobs, fs_op.path)
         THEN /\ Names(fs_list) = ChildDirs(blobs, fs_op.path)
              /\ Cardinality(Names(fs_list)) = Len(fs_list)
         ELSE fs_list = << >>

\* What does hold: the same, with the marker among the files get_files
\* returns, for the directories that are not the container root.
C16_ListsChildrenAndMarker ==
  /\ (fs_op.op = "get_files" /\ ~IsRoot(fs_op.path)) =>
       IF is_dir(blobs, fs_op.path)
         THEN Names(fs_list) = ChildFiles(blobs, fs_op.path)
                \cup ({MarkerOf(fs_op.path)} \cap DOMAIN blobs)
         ELSE fs_list = << >>
  /\ (fs_op.op = "get_dirs" /\ ~IsRoot(fs_op.path)) =>
       IF is_dir(blobs, fs_op.path)
         THEN Names(fs_list) = ChildDirs(blobs, fs_op.path)
         ELSE fs_list = << >>

-----------------------------------------------------------------------------
(* Properties of the constructor, real_dir and move_path (SpecObj).        *)

\* C17: no call of move_path, real_dir, create_dir, delete_dir, create_file,
\* delete_file, file_size, read_from_file, write_to_file or commit_file ends
\* by a thrown exception.
C17_NoCallThrows ==
  fs_op.op \in {"move_path", "real_dir", "create_dir", "delete_dir", "create_file",
                "delete_file", "file_size", "read_from_file", "write_to_file",
                "commit_file"}
    => fs_ret # THROWN

\* C18: move_path fails as unsupported for every pair of paths in every
\* state and leaves the blobs, their contents, the staged blocks and the
\* pending-write map as they were; locking_support() is false.
C18_MoveUnsupported ==
  /\ [][fs_op'.op = "move_path" =>
          /\ fs_ret' = THROWN
          /\ fs_list' = <<"EPROTONOSUPPORT">>
          /\ fs_calls' = << >>
          /\ blobs' = blobs
          /\ staged' = staged
          /\ write_map_' = write_map_]_vars
  /\ [](fs_op.op = "move_path" => fs_ret # TILEDB_FS_OK)
  /\ [](~locking_support)

\* a move refused with a committed blob and a pending list in place
C18_Witness ==
  /\ fs_op.op = "move_path"
  /\ fs_ret = THROWN
  /\ fs_op.existed
  /\ fs_op.had_entry
  /\ blob_exists(blobs, fs_op.name)
  /\ fs_op.name \in DOMAIN write_map_

WellFormed(home) ==
  UriProtocol(home) = <<"a", "z">> /\ UriAccount(home) # << >> /\ UriContainer(home) # << >>

Constructed == fs_ret = "returned"

\* C19: the construction from an az:// URI with account, container and
\* credentials succeeds when the container exists, whether or not the
\* container-properties request succeeds, and throws when it does not
\* exist; with another protocol or an empty account or container it throws
\* before any backend call.
C19_ConstructsOnExistingContainer ==
  fs_op.op = "AzureBlob" =>
    /\ (WellFormed(fs_op.path) /\ fs_op.n = 1) =>
         (Constructed <=> UriContainer(fs_op.path) \in ExistingContainers)
    /\ ~WellFormed(fs_op.path) => fs_ret = THROWN /\ fs_calls = << >>
    /\ ~Constructed => fs_ret = THROWN

\* What does hold: the construction succeeds exactly when, besides, the
\* container-properties request has failed.
C19_ConstructsIfPropertiesFail ==
  fs_op.op = "AzureBlob" =>
    /\ (WellFormed(fs_op.path) /\ fs_op.n = 1) =>
         (Constructed <=> /\ UriContainer(fs_op.path) \in ExistingContainers
                          /\ ~fs_calls[1].ok)
    /\ ~WellFormed(fs_op.path) => fs_ret = THROWN /\ fs_calls = << >>
    /\ ~Constructed => fs_ret = THROWN

-----------------------------------------------------------------------------
(* SpecImage: check_results of tiledb_image_read_panels.cc on the buffer   *)
(* main read: three channels of width * height ints, R then G then B.  The *)
(* images checked are the palette image and that image with one element    *)
(* replaced; buffer_image holds which element and by what.                 *)

num_comps == 3
width == 300
height == 300

\* lines 41-60
R == [x \in 0..9 |-> <<0, 201, 234, 233, 255, 255, 101, 12, 0, 130>>[x + 1]]
G == [x \in 0..9 |-> <<0, 23, 85, 82, 255, 234, 49, 2, 85, 130>>[x + 1]]
B == [x \in 0..9 |-> <<0, 30, 6, 149, 255, 0, 142, 196, 46, 130>>[x + 1]]

\* the image the array holds: 3 x 3 panels of (height/3) x (width/3) pixels,
\* panel n in row-major order filled with palette entry n; element index of
\* the buffer main lays out (lines 149-154), channel after channel
PanelAt(pixel) == 3 * ((pixel \div width) \div (height \div 3)) + ((pixel % width) \div (width \div 3))

PaletteImage(index) ==
  LET channel == index \div (width * height)
      pixel == index % (width * height)
  IN  CASE channel = 0 -> R[PanelAt(pixel)]
        [] channel = 1 -> G[PanelAt(pixel)]
        [] OTHER -> B[PanelAt(pixel)]

\* l_data[index]
l_data(index) ==
  IF index = buffer_image.at THEN buffer_image.value ELSE PaletteImage(index)

\* the elements replaced, and the values put there (0 is what the first
\* element of the palette image holds)
ReplacedAt == { 0, 120100, 269999 }
ReplacedBy == { 0, 130 }

\* the inner loop running over a whole column
KBound_Height == height

\* line 88: k < height/3
KBound == height \div 3

\* lines 85-88: the loop counters after one pass of the innermost body
Advance(ck) ==
  IF ck.k + 1 < KBound THEN [ck EXCEPT !.k = ck.k + 1]
  ELSE IF ck.j + 1 < ck.c + 3 THEN [ck EXCEPT !.k = 0, !.j = ck.j + 1]
  ELSE IF ck.i + 1 < width \div 3 THEN [ck EXCEPT !.k = 0, !.j = ck.c, !.i = ck.i + 1]
  ELSE IF ck.c + 3 < 9 THEN [ck EXCEPT !.k = 0, !.j = ck.c + 3, !.i = 0, !.c = ck.c + 3]
  ELSE [ck EXCEPT !.pc = "report", !.c = ck.c + 3]

Bump(errs, x, wrong) == IF wrong THEN [errs EXCEPT ![x] = errs[x] + 1] ELSE errs

\* lines 89-91, then the loop headers
check_results_compare ==
  /\ check.pc = "loop"
  /\ LET wrongR == l_data(check.p) # R[check.j]
         wrongG == l_data(check.q) # G[check.j]
         wrongB == l_data(check.r) # B[check.j]
         count(wrong) == IF wrong THEN 1 ELSE 0
     IN  check' = Advance([check EXCEPT
                     !.p = check.p + 1,
                     !.q = check.q + 1,
                     !.r = check.r + 1,
                     !.Rerrs = Bump(check.Rerrs, check.j, wrongR),
                     !.Gerrs = Bump(check.Gerrs, check.j, wrongG),
                     !.Berrs = Bump(check.Berrs, check.j, wrongB),
                     !.errors = check.errors + count(wrongR) + count(wrongG) + count(wrongB)])
  /\ UNCHANGED <<buffer_image, fsVars, wrVars, upVars, frVars>>

\* line 97
check_results_report ==
  /\ check.pc = "report"
  /\ check' = [check EXCEPT !.pc = "done", !.success = (check.errors = 0)]
  /\ UNCHANGED <<buffer_image, fsVars, wrVars, upVars, frVars>>

\* lines 62-68, 83-84
InitImage ==
  /\ buffer_image \in {[at |-> -1, value |-> 0]}
                        \cup [at : ReplacedAt, value : ReplacedBy]
  /\ check = [pc |-> "loop", c |-> 0, i |-> 0, j |-> 0, k |-> 0,
              p |-> 0, q |-> width * height, r |-> 2 * width * height,
              errors |-> 0, success |-> FALSE,
              Rerrs |-> [x \in 0..8 |-> 0],
              Gerrs |-> [x \in 0..8 |-> 0],
              Berrs |-> [x \in 0..8 |-> 0]]
  /\ FsIdle
  /\ UpIdle
  /\ WrIdle
  /\ FrIdle

NextImage ==
  \/ check_results_compare
  \/ check_results_report

SpecImage == InitImage /\ [][NextImage]_vars

\* the pixel the loop counters stand at
RowOf(ck) == (ck.c \div 3) * (height \div 3) + ck.i
ColOf(ck) == (ck.j - ck.c) * (width \div 3) + ck.k

\* C20: check_results compares, for every pixel at buffer index
\* row * 300 + col, the R, G and B elements with the palette entry
\* 3 * (row div 100) + (col div 100); it goes through the 90000 elements of
\* each channel one after the other, each once, never outside [0, 270000);
\* and it reports success exactly when every element equals its palette
\* entry.
C20_ChecksEveryPixelOnce ==
  /\ [](check.pc = "loop" =>
          /\ RowOf(check) \in 0..(height - 1)
          /\ ColOf(check) \in 0..(width - 1)
          /\ check.p = RowOf(check) * width + ColOf(check)
          /\ check.q = width * height + check.p
          /\ check.r = 2 * width * height + check.p
          /\ check.r < num_comps * width * height
          /\ check.j = 3 * (RowOf(check) \div 100) + (ColOf(check) \div 100))
  /\ [][check.pc = "loop" => check'.p = check.p + 1]_vars
  /\ [](check.pc \in {"report", "done"} => check.p = width * height)
  /\ [](check.pc = "done" =>
          (check.success <=>
             \A index \in 0..(num_comps * width * height - 1) :
               l_data(index) = PaletteImage(index)))

\* the check done on an image whose last B element is wrong, found and
\* counted for the last panel
C20_Witness ==
  /\ check.pc = "done"
  /\ buffer_image = [at |-> 269999, value |-> 130]
  /\ ~check.success
  /\ check.errors = 1
  /\ check.Berrs[8] = 1
  /\ check.p = 90000

-----------------------------------------------------------------------------
(* SpecFrag: the fragments of one sparse array, their writers and the      *)
(* readers of the array, as the storage engine's design describes them     *)
(* (the fragment writer, the read coordinator and the array handle are not *)
(* part of the backend's source).  A fragment is a directory named by a    *)
(* timestamp; fragments is the sequence of these directories in timestamp  *)
(* order, so that a fragment's index is its timestamp.                     *)

MaxFragments == 2

Handles == {"h"}

\* the coordinates of the one-dimensional sparse domain that are written
Coords == {10, 11}

\* what fragment ts writes at a coordinate: 100, 200, ...
ValueOf(ts) == 100 * ts

\* finalize: flush the tiles, write the book-keeping, then the .ok sentinel
FinalizeOrder == <<"data", "book", "ok">>

\* a fragment taken for visible once its book-keeping is there
Visible_BookKeeping(fragment) == "book" \in fragment.files

\* a fragment is visible when its directory holds the .ok sentinel
Visible(fragment) == "ok" \in fragment.files

VisibleFragments(frs) == { ts \in 1..Len(frs) : Visible(frs[ts]) }

\* open(array, mode): a fragment directory with a fresh timestamp
writer_open ==
  /\ Len(fragments) < MaxFragments
  /\ fragments' = Append(fragments,
       [status |-> "open", files |-> {}, cells |-> << >>, order |-> 0])
  /\ UNCHANGED <<readers, fsVars, wrVars, upVars, imVars>>

\* submit: one more cell, or a filesystem error that aborts the write
submit ==
  \E ts \in 1..Len(fragments) :
    /\ fragments[ts].status = "open"
    /\ \/ \E c \in Coords \ DOMAIN fragments[ts].cells :
            fragments' = [fragments EXCEPT ![ts].cells = With(@, c, ValueOf(ts))]
       \/ fragments' = [fragments EXCEPT ![ts].status = "aborted"]
    /\ UNCHANGED <<readers, fsVars, wrVars, upVars, imVars>>

\* finalize: the files are written in FinalizeOrder; a filesystem error, or
\* the end of the process, stops it after any number of them: done files
\* were written, and the fragment is finalized when all of them were.
\* order keeps the rank of the fragment among the finalized ones.
finalize ==
  \E ts \in 1..Len(fragments), done \in 0..Len(FinalizeOrder) :
    /\ fragments[ts].status = "open"
    /\ fragments' = [fragments EXCEPT
          ![ts].files = { FinalizeOrder[k] : k \in 1..done },
          ![ts].status = IF done = Len(FinalizeOrder) THEN "finalized" ELSE "aborted",
          ![ts].order = IF done = Len(FinalizeOrder)
                          THEN 1 + Cardinality({ o \in 1..Len(fragments) :
                                                  fragments[o].status = "finalized" })
                          ELSE 0]
    /\ UNCHANGED <<readers, fsVars, wrVars, upVars, imVars>>

\* a reader that looks at the array directory again at every read
ReadSet_Live(snapshot, frs) == VisibleFragments(frs)

\* the fragments a handle reads: those it found at open
ReadSet(snapshot, frs) == snapshot

\* the cells the read coordinator draws from: one per coordinate of each
\* fragment read
Candidates(frs, S) ==
  { [coord |-> c, ts |-> ts] : <<c, ts>> \in
      { x \in Coords \X S : x[1] \in DOMAIN frs[x[2]].cells } }

\* a queue that gives the older fragment first
Before_OlderFirst(a, b) == a.coord < b.coord \/ (a.coord = b.coord /\ a.ts < b.ts)

\* the priority queue's key: (cell_order(coord), fragment_timestamp_desc)
Before(a, b) == a.coord < b.coord \/ (a.coord = b.coord /\ a.ts > b.ts)

\* a later fragment already produced the same coordinate
Discards(e, produced) == e.coord \in produced

RECURSIVE Pop(_, _, _)
\* pop the smallest, emit it unless discarded, and go on
Pop(frs, queue, produced) ==
  IF queue = {} THEN << >>
  ELSE LET e == CHOOSE e \in queue : \A o \in queue \ {e} : Before(e, o)
       IN  (IF Discards(e, produced) THEN << >>
            ELSE <<[coord |-> e.coord, value |-> frs[e.ts].cells[e.coord]]>>)
           \o Pop(frs, queue \ {e}, produced \cup {e.coord})

\* the merged stream of cells of a read of the full domain
read_cells(frs, S) == Pop(frs, Candidates(frs, S), {})

\* open the array for reading: the handle keeps the fragments visible now
array_open ==
  \E h \in Handles \ DOMAIN readers :
    /\ readers' = With(readers, h,
          [snapshot |-> VisibleFragments(fragments), has_read |-> FALSE,
           stream |-> << >>, found |-> << >>])
    /\ UNCHANGED <<fragments, fsVars, wrVars, upVars, imVars>>

\* read the full domain through a handle.  found keeps what the array
\* directory held at that moment: the files of each fragment directory.
read ==
  \E h \in DOMAIN readers :
    /\ readers' = [readers EXCEPT ![h] =
          [snapshot |-> @.snapshot, has_read |-> TRUE,
           stream |-> read_cells(fragments, ReadSet(@.snapshot, fragments)),
           found |-> [ts \in 1..Len(fragments) |-> fragments[ts].files]]]
    /\ UNCHANGED <<fragments, fsVars, wrVars, upVars, imVars>>

\* close the handle
array_close ==
  \E h \in DOMAIN readers :
    /\ readers' = Without(readers, h)
    /\ UNCHANGED <<fragments, fsVars, wrVars, upVars, imVars>>

InitFrag ==
  /\ FrIdle
  /\ FsIdle
  /\ UpIdle
  /\ WrIdle
  /\ ImIdle

NextFrag ==
  \/ writer_open
  \/ submit
  \/ finalize
  \/ array_open
  \/ read
  \/ array_close

SpecFrag == InitFrag /\ [][NextFrag]_vars

-----------------------------------------------------------------------------
(* Properties of fragments and reads (SpecFrag).                           *)

HasSentinel(ts) == "ok" \in fragments[ts].files

HaveRead == { h \in DOMAIN readers : readers[h].has_read }

\* the fragment a value was written by
FragmentOf(value) == value \div 100

Has(ts, c) == c \in DOMAIN fragments[ts].cells

Covered(S) == { c \in Coords : \E ts \in S : Has(ts, c) }

\* the fragment of S with the latest timestamp among those holding c
Latest(S, c) == CHOOSE ts \in S : Has(ts, c) /\ \A o \in S : Has(o, c) => o <= ts

ExpectedCells(S) ==
  { [coord |-> c, value |-> fragments[Latest(S, c)].cells[c]] : c \in Covered(S) }

CellsOf(stream) == { stream[k] : k \in 1..Len(stream) }

\* C21: a fragment is visible to readers only once its .ok sentinel exists,
\* and the sentinel is the last file finalize writes; a write that failed or
\* was interrupted leaves its directory, never becomes visible, and reads
\* return what they would had the write never started.
C21_VisibleOnlyAfterOk ==
  /\ [](\A ts \in 1..Len(fragments) :
          HasSentinel(ts) =>
            /\ fragments[ts].status = "finalized"
            /\ {"data", "book"} \subseteq fragments[ts].files)
  /\ [][\A ts \in 1..Len(fragments) :
          fragments[ts].status = "aborted" =>
            /\ Len(fragments') >= ts
            /\ fragments'[ts] = fragments[ts]]_vars
  /\ [](\A h \in DOMAIN readers : \A ts \in readers[h].snapshot : HasSentinel(ts))
  /\ [](\A h \in HaveRead :
          LET started  == 1..Len(readers[h].found)
              complete == { ts \in started : "ok" \in readers[h].found[ts] }
          IN  /\ \A cell \in CellsOf(readers[h].stream) : FragmentOf(cell.value) \in complete
              /\ CellsOf(readers[h].stream) = ExpectedCells(readers[h].snapshot \cap complete))

\* a read that found a fragment directory with data and book-keeping but no
\* sentinel, holding coordinate 10, and returned a cell of another fragment
\* at 10
C21_Witness ==
  \E h \in HaveRead : \E ts \in 1..Len(readers[h].found) :
    /\ readers[h].found[ts] = {"data", "book"}
    /\ fragments[ts].status = "aborted"
    /\ Has(ts, 10)
    /\ Len(readers[h].stream) = 1
    /\ readers[h].stream[1].coord = 10
    /\ readers[h].stream[1].value # ValueOf(ts)

\* C22: when the same coordinate lies in several visible fragments, a read
\* returns the cell once, with the value of the fragment of the latest
\* timestamp, whatever the number of fragments and the order they were
\* written in.
C22_NewestOnce ==
  \A h \in HaveRead :
    LET stream == readers[h].stream
        S == readers[h].snapshot
    IN  /\ \A c \in Coords :
             Cardinality({ k \in 1..Len(stream) : stream[k].coord = c })
               = (IF c \in Covered(S) THEN 1 ELSE 0)
        /\ \A k \in 1..Len(stream) :
             stream[k].value = ValueOf(Latest(S, stream[k].coord))

\* both fragments hold coordinate 10, the later one was finalized first,
\* and the read gives 10 once, with the later fragment's value
C22_Witness ==
  \E h \in HaveRead :
    /\ readers[h].snapshot = {1, 2}
    /\ Has(1, 10) /\ Has(2, 10) /\ Has(1, 11) /\ ~Has(2, 11)
    /\ fragments[2].order < fragments[1].order
    /\ readers[h].stream = <<[coord |-> 10, value |-> ValueOf(2)],
                             [coord |-> 11, value |-> ValueOf(1)]>>

\* C23: what a handle reads depends only on the fragments that had their
\* sentinel when the array was opened; a fragment finalized after the open
\* never shows through that handle.
C23_SnapshotAtOpen ==
  /\ [][\A h \in DOMAIN readers' \ DOMAIN readers :
          readers'[h].snapshot = { ts \in 1..Len(fragments) : HasSentinel(ts) }]_vars
  /\ [][\A h \in DOMAIN readers' \cap DOMAIN readers :
          readers'[h].snapshot = readers[h].snapshot]_vars
  /\ [](\A h \in HaveRead :
          /\ CellsOf(readers[h].stream) = ExpectedCells(readers[h].snapshot)
          /\ \A cell \in CellsOf(readers[h].stream) :
               FragmentOf(cell.value) \in readers[h].snapshot)

\* a read through a handle opened on fragment 1 alone, at a moment when
\* fragment 2, with another value at coordinate 10, had its sentinel
C23_Witness ==
  \E h \in HaveRead :
    /\ readers[h].snapshot = {1}
    /\ Len(readers[h].found) = 2
    /\ "ok" \in readers[h].found[2]
    /\ Has(1, 10) /\ Has(2, 10)
    /\ readers[h].stream = <<[coord |-> 10, value |-> ValueOf(1)]>>

=============================================================================
